---------------------------- MODULE Spec2Model ----------------------------
(***************************************************************************)
(* A model of the line mapping tool (line_mapper.py) and of the dataset    *)
(* builder that calls it (generate_dataset.py).                            *)
(*                                                                         *)
(* Text is modelled character by character: a line is a sequence of        *)
(* one-character strings.  Indices into kept lines are 0-based as in the   *)
(* Python code; TLA+ sequences are 1-based, so element x of a Python list  *)
(* l is l[x + 1] here.  Floating-point similarity scores are modelled in   *)
(* fixed point: a cosine is an integer number of 1/CosScale, a combined    *)
(* score an integer number of 1/(10 * CosScale).                           *)
(***************************************************************************)
EXTENDS Integers, Sequences, FiniteSets, TLC

---------------------------------------------------------------------------
(* Characters *)

UPPER == <<"A", "B", "C", "D", "E", "F", "G", "H", "I", "J", "K", "L", "M",
           "N", "O", "P", "Q", "R", "S", "T", "U", "V", "W", "X", "Y", "Z">>
LOWER == <<"a", "b", "c", "d", "e", "f", "g", "h", "i", "j", "k", "l", "m",
           "n", "o", "p", "q", "r", "s", "t", "u", "v", "w", "x", "y", "z">>
DIGITS == {"0", "1", "2", "3", "4", "5", "6", "7", "8", "9"}

\* str.split() / str.strip() without argument: the whitespace characters.
Whitespace == {" ", "\t", "\n", "\r"}

\* str.lower() on one character.
LowerChar(c) ==
    IF \E k \in 1..26 : UPPER[k] = c
    THEN LOWER[CHOOSE k \in 1..26 : UPPER[k] = c]
    ELSE c

\* str.lower()
Lower(s) == [k \in 1..Len(s) |-> LowerChar(s[k])]

\* The character class [a-zA-Z0-9_] of _tokens.
IsTokenChar(c) ==
    \/ \E k \in 1..26 : UPPER[k] = c \/ LOWER[k] = c
    \/ c \in DIGITS
    \/ c = "_"

NotSpace(c) == c \notin Whitespace

\* Maximal runs of kept characters, left to right: str.split() keeps the
\* characters that are not whitespace (tok = FALSE), and
\* re.findall(r"[a-zA-Z0-9_]+") those of the class (tok = TRUE).  cur is the
\* run being read.
RECURSIVE Runs(_, _, _, _)
Runs(s, k, cur, tok) ==
    IF k > Len(s)
    THEN IF cur = <<>> THEN <<>> ELSE <<cur>>
    ELSE IF (IF tok THEN IsTokenChar(s[k]) ELSE NotSpace(s[k]))
         THEN Runs(s, k + 1, Append(cur, s[k]), tok)
         ELSE (IF cur = <<>> THEN <<>> ELSE <<cur>>) \o Runs(s, k + 1, <<>>, tok)

\* str.split()
Split(s) == Runs(s, 1, <<>>, FALSE)

\* " ".join(words)
RECURSIVE JoinSpace(_)
JoinSpace(words) ==
    IF words = <<>> THEN <<>>
    ELSE IF Len(words) = 1 THEN words[1]
    ELSE words[1] \o <<" ">> \o JoinSpace(Tail(words))

\* l.strip() is non-empty: some character is not whitespace.
StripNonEmpty(l) == \E k \in 1..Len(l) : l[k] \notin Whitespace

\* A normalization that collapses whitespace but keeps the letter case.
NormalizeKeepCase(line) == JoinSpace(Split(line))

\* LineMapper._normalize
Normalize(line) == JoinSpace(Split(Lower(line)))

\* LineMapper._tokens
Tokens(text) == Runs(Lower(text), 1, <<>>, TRUE)

---------------------------------------------------------------------------
(* Token frequency counters and cosine similarity *)

\* collections.Counter(tokens): a function from the tokens present to
\* their counts.
Counter(toks) ==
    [t \in {toks[k] : k \in 1..Len(toks)} |->
        Cardinality({k \in 1..Len(toks) : toks[k] = t})]

EmptyCounter == Counter(<<>>)

\* Counter.get(k, 0)
Get(c, t) == IF t \in DOMAIN c THEN c[t] ELSE 0

\* Counter.update(other): counts are added.
Update(c, d) == [t \in DOMAIN c \cup DOMAIN d |-> Get(c, t) + Get(d, t)]

RECURSIVE SumOver(_, _)
SumOver(S, f) ==
    IF S = {} THEN 0
    ELSE LET x == CHOOSE y \in S : TRUE IN f[x] + SumOver(S \ {x}, f)

\* Similarities are held in units of 1/CosScale.
CosScale == 1000

\* floor(sqrt(x)) by bisection on lo..hi (lo * lo <= x < (hi + 1)^2).
RECURSIVE ISqrt(_, _, _)
ISqrt(x, lo, hi) ==
    IF lo = hi THEN lo
    ELSE LET mid == (lo + hi + 1) \div 2
         IN  IF mid * mid <= x THEN ISqrt(x, mid, hi) ELSE ISqrt(x, lo, mid - 1)

\* LineMapper._tf_cosine: dot / (norm1 * norm2), in units of 1/CosScale
\* (rounded down).
TfCosine(t1, t2) ==
    IF DOMAIN t1 = {} \/ DOMAIN t2 = {} THEN 0
    ELSE LET dot == SumOver(DOMAIN t1, [k \in DOMAIN t1 |-> t1[k] * Get(t2, k)])
         IN  IF dot = 0 THEN 0
             ELSE LET sq1 == SumOver(DOMAIN t1, [k \in DOMAIN t1 |-> t1[k] * t1[k]])
                      sq2 == SumOver(DOMAIN t2, [k \in DOMAIN t2 |-> t2[k] * t2[k]])
                  IN  ISqrt((CosScale * CosScale * dot * dot) \div (sq1 * sq2),
                            0, CosScale)

---------------------------------------------------------------------------
(* difflib.SequenceMatcher(a, b, autojunk=False).get_opcodes() *)

\* Length of the common run of a and b that starts at a[i], b[j] and stays
\* inside a[..ahi), b[..bhi).
RECURSIVE MatchLen(_, _, _, _, _, _)
MatchLen(a, b, i, j, ahi, bhi) ==
    IF i < ahi /\ j < bhi /\ a[i + 1] = b[j + 1]
    THEN 1 + MatchLen(a, b, i + 1, j + 1, ahi, bhi)
    ELSE 0

SetMax(S) == CHOOSE x \in S : \A y \in S : y <= x
SetMin(S) == CHOOSE x \in S : \A y \in S : x <= y

\* SequenceMatcher.find_longest_match without junk: the longest block
\* a[i:i+k] == b[j:j+k] inside a[alo:ahi], b[blo:bhi]; of all longest blocks
\* the one that starts earliest in a, and of those the one that starts
\* earliest in b.  (alo, blo, 0) when nothing matches.
FindLongestMatch(a, b, alo, ahi, blo, bhi) ==
    LET len == [i \in alo..(ahi - 1) |->
                   [j \in blo..(bhi - 1) |-> MatchLen(a, b, i, j, ahi, bhi)]]
        ks == {len[i][j] : i \in alo..(ahi - 1), j \in blo..(bhi - 1)} \cup {0}
        k == SetMax(ks)
    IN  IF k = 0 THEN <<alo, blo, 0>>
        ELSE LET i == SetMin({x \in alo..(ahi - 1) :
                                 \E y \in blo..(bhi - 1) : len[x][y] = k})
                 j == SetMin({y \in blo..(bhi - 1) : len[i][y] = k})
             IN  <<i, j, k>>

\* The queue of get_matching_blocks: the longest match, then the same to
\* its left and to its right.  Written in sorted order (what is left of a
\* block sorts before it).
RECURSIVE MatchQueue(_, _, _, _, _, _)
MatchQueue(a, b, alo, ahi, blo, bhi) ==
    LET x == FindLongestMatch(a, b, alo, ahi, blo, bhi)
        i == x[1]
        j == x[2]
        k == x[3]
    IN  IF k = 0 THEN <<>>
        ELSE (IF alo < i /\ blo < j
              THEN MatchQueue(a, b, alo, i, blo, j) ELSE <<>>)
             \o <<x>>
             \o (IF i + k < ahi /\ j + k < bhi
                 THEN MatchQueue(a, b, i + k, ahi, j + k, bhi) ELSE <<>>)

\* get_matching_blocks collapses adjacent equal blocks: (i1, j1, k1) is the
\* block being grown.
RECURSIVE Collapse(_, _, _, _)
Collapse(blocks, i1, j1, k1) ==
    IF blocks = <<>>
    THEN IF k1 > 0 THEN <<(<<i1, j1, k1>>)>> ELSE <<>>
    ELSE LET x == Head(blocks)
         IN  IF i1 + k1 = x[1] /\ j1 + k1 = x[2]
             THEN Collapse(Tail(blocks), i1, j1, k1 + x[3])
             ELSE (IF k1 > 0 THEN <<(<<i1, j1, k1>>)>> ELSE <<>>)
                  \o Collapse(Tail(blocks), x[1], x[2], x[3])

\* SequenceMatcher.get_matching_blocks: the blocks, then the sentinel
\* (len(a), len(b), 0).
GetMatchingBlocks(a, b) ==
    Collapse(MatchQueue(a, b, 0, Len(a), 0, Len(b)), 0, 0, 0)
        \o <<(<<Len(a), Len(b), 0>>)>>

Op(tag, i1, i2, j1, j2) == [tag |-> tag, i1 |-> i1, i2 |-> i2, j1 |-> j1, j2 |-> j2]

\* The loop of get_opcodes over the matching blocks, (i, j) being where
\* the previous block ended.
RECURSIVE OpcodesFrom(_, _, _)
OpcodesFrom(blocks, i, j) ==
    IF blocks = <<>> THEN <<>>
    ELSE LET ai == Head(blocks)[1]
             bj == Head(blocks)[2]
             size == Head(blocks)[3]
             gap == IF i < ai /\ j < bj THEN <<Op("replace", i, ai, j, bj)>>
                    ELSE IF i < ai THEN <<Op("delete", i, ai, j, bj)>>
                    ELSE IF j < bj THEN <<Op("insert", i, ai, j, bj)>>
                    ELSE <<>>
             eq == IF size > 0
                   THEN <<Op("equal", ai, ai + size, bj, bj + size)>>
                   ELSE <<>>
         IN  gap \o eq \o OpcodesFrom(Tail(blocks), ai + size, bj + size)

\* SequenceMatcher.get_opcodes
GetOpcodes(a, b) == OpcodesFrom(GetMatchingBlocks(a, b), 0, 0)

---------------------------------------------------------------------------
(* LineMapper._max_assignment *)

\* float("inf"): larger than every cost and every line number.
INF == 1000000000

\* The first inner for loop (j in 1..n, unused columns only): minv and way
\* are lowered through row i0; delta is the least minv of an unused column
\* and j1 the first column that has it (the comparison is strict).
ScanRow(cost, n, h, i0) ==
    LET cur == [j \in 1..n |-> cost[i0][j] - h.u[i0] - h.v[j]]
        minv == [j \in 0..n |->
                    IF j > 0 /\ ~h.used[j] /\ cur[j] < h.minv[j]
                    THEN cur[j] ELSE h.minv[j]]
        way == [j \in 0..n |->
                   IF j > 0 /\ ~h.used[j] /\ cur[j] < h.minv[j]
                   THEN h.j0 ELSE h.way[j]]
        free == {j \in 1..n : ~h.used[j]}
        delta == IF free = {} THEN INF ELSE SetMin({minv[j] : j \in free})
        j1 == IF free = {} THEN 0 ELSE SetMin({j \in free : minv[j] = delta})
    IN  [h EXCEPT !.minv = minv, !.way = way, !.delta = delta, !.j1 = j1]

\* The second inner for loop (j in 0..n): the potentials of the used
\* columns and of their rows move by delta, minv of the others drops.
Relabel(n, h) ==
    [h EXCEPT
        !.u = [r \in 0..n |->
                  h.u[r] + h.delta * Cardinality({j \in 0..n : h.used[j] /\ h.p[j] = r})],
        !.v = [j \in 0..n |-> IF h.used[j] THEN h.v[j] - h.delta ELSE h.v[j]],
        !.minv = [j \in 0..n |-> IF h.used[j] THEN h.minv[j] ELSE h.minv[j] - h.delta]]

\* The first while loop: grow the alternating tree from column j0 until a
\* column without a row is reached.
RECURSIVE GrowTree(_, _, _)
GrowTree(cost, n, h) ==
    LET h1 == [h EXCEPT !.used[h.j0] = TRUE]
        h2 == ScanRow(cost, n, h1, h1.p[h1.j0])
        h3 == [Relabel(n, h2) EXCEPT !.j0 = h2.j1]
    IN  IF h3.p[h3.j0] = 0 THEN h3 ELSE GrowTree(cost, n, h3)

\* The second while loop: flip the assignment along the path back to
\* column 0.
RECURSIVE Augment(_)
Augment(h) ==
    LET j1 == h.way[h.j0]
        h1 == [h EXCEPT !.p[h.j0] = h.p[j1], !.j0 = j1]
    IN  IF j1 = 0 THEN h1 ELSE Augment(h1)

\* The outer loop, rows i..n.
RECURSIVE AssignRows(_, _, _, _)
AssignRows(cost, n, h, i) ==
    IF i > n THEN h
    ELSE LET h0 == [h EXCEPT !.p[0] = i, !.j0 = 0,
                             !.minv = [j \in 0..n |-> INF],
                             !.used = [j \in 0..n |-> FALSE]]
         IN  AssignRows(cost, n, Augment(GrowTree(cost, n, h0)), i + 1)

\* The extraction loop over columns j..n.
RECURSIVE Extract(_, _, _, _, _)
Extract(p, n, n_rows, n_cols, j) ==
    IF j > n THEN <<>>
    ELSE (IF p[j] # 0 /\ p[j] - 1 < n_rows /\ j - 1 < n_cols
          THEN <<(<<p[j] - 1, j - 1>>)>> ELSE <<>>)
         \o Extract(p, n, n_rows, n_cols, j + 1)

\* An assignment that pairs row k with column k, whatever the scores.
DiagonalAssignment(sim_matrix) ==
    IF sim_matrix = <<>> \/ sim_matrix[1] = <<>> THEN <<>>
    ELSE [k \in 1..(IF Len(sim_matrix) < Len(sim_matrix[1])
                    THEN Len(sim_matrix) ELSE Len(sim_matrix[1])) |-> <<k - 1, k - 1>>]

\* An assignment in which every row takes its best column, whether or not
\* another row has taken it.
RowGreedyAssignment(sim_matrix) ==
    IF sim_matrix = <<>> \/ sim_matrix[1] = <<>> THEN <<>>
    ELSE [r \in 1..Len(sim_matrix) |->
             <<r - 1,
               SetMin({c \in 1..Len(sim_matrix[r]) :
                          \A d \in 1..Len(sim_matrix[r]) :
                              sim_matrix[r][d] <= sim_matrix[r][c]}) - 1>>]

\* LineMapper._max_assignment: the pairs (row, column), 0-based, of a
\* maximum weight assignment of the matrix padded to a square.
MaxAssignment(sim_matrix) ==
    IF sim_matrix = <<>> \/ sim_matrix[1] = <<>> THEN <<>>
    ELSE LET n_rows == Len(sim_matrix)
             n_cols == Len(sim_matrix[1])
             n == IF n_rows > n_cols THEN n_rows ELSE n_cols
             max_val == SetMax({sim_matrix[i][j] : i \in 1..n_rows, j \in 1..n_cols})
             cost == [i \in 1..n |-> [j \in 1..n |->
                         max_val - (IF i <= n_rows /\ j <= n_cols
                                    THEN sim_matrix[i][j] ELSE 0)]]
             zero == [j \in 0..n |-> 0]
             h0 == [u |-> zero, v |-> zero, p |-> zero, way |-> zero,
                    minv |-> [j \in 0..n |-> INF],
                    used |-> [j \in 0..n |-> FALSE],
                    j0 |-> 0, j1 |-> 0, delta |-> INF]
         IN  Extract(AssignRows(cost, n, h0, 1).p, n, n_rows, n_cols, 1)

---------------------------------------------------------------------------
(* LineMapper._simhash and _hamming *)

\* The simhash is 64 bits wide.  A 64-bit value is held as the set of the
\* positions of its 1 bits.
HashWidth == 64

\* The hash seeds a process may start with.  Python's built-in hash of a
\* string is keyed by a seed drawn when the interpreter starts
\* (PYTHONHASHSEED), so hash(token) is a function of the seed and the token.
HashSeeds == {0, 1}

CharCode(c) ==
    IF \E k \in 1..26 : LOWER[k] = c THEN CHOOSE k \in 1..26 : LOWER[k] = c
    ELSE IF \E k \in 1..26 : UPPER[k] = c THEN 26 + (CHOOSE k \in 1..26 : UPPER[k] = c)
    ELSE 53

RECURSIVE TokenCode(_)
TokenCode(token) ==
    IF token = <<>> THEN 0
    ELSE (TokenCode(SubSeq(token, 1, Len(token) - 1)) * 31
          + CharCode(token[Len(token)])) % 256

\* hash(token) in a process started with the given seed: the 1 bits of a
\* 64-bit value keyed by the seed.  The keyed function itself (SipHash) is
\* not reproduced; what is kept is that the value depends on the seed and
\* the token, and on nothing else.
StrHash(seed, token) ==
    LET x == ((TokenCode(token) + 1) * (2 * seed + 1) + 77 * seed) % 256
    IN  {i \in 0..(HashWidth - 1) : (x \div (2 ^ (i % 8))) % 2 = 1}

\* LineMapper._simhash in a process started with the given seed.
Simhash(text, seed) ==
    IF text = <<>> THEN {}
    ELSE LET toks == Split(text)
             h == [k \in 1..Len(toks) |-> StrHash(seed, toks[k])] \o <<>>
             weights == [i \in 0..(HashWidth - 1) |->
                 Cardinality({k \in 1..Len(toks) : i \in h[k]})
                 - Cardinality({k \in 1..Len(toks) : i \notin h[k]})]
         IN  {i \in 0..(HashWidth - 1) : weights[i] >= 0}

\* LineMapper._hamming: the number of 1 bits of a xor b.
Hamming(a, b) == Cardinality((a \ b) \cup (b \ a))

---------------------------------------------------------------------------
(* LineMapper.map_lines *)

\* LineMapping.old_line / new_line is None.
None == 0

LineMapping(old, new) == [old_line |-> old, new_line |-> new]

\* The context window: four lines on each side.
Window == 4

\* The weights of content and context similarity, in tenths, the bonus of
\* a pair at neighbouring offsets, the least base score that earns it and
\* the least score of a match, all in units of 1/(10 * CosScale).
ContentWeight == 7
ContextWeight == 3
PosBonus == 2 * CosScale
BonusFloor == CosScale \div 2
Threshold == CosScale

\* [i for i, l in enumerate(lines) if l.strip()], 0-based.
\* The kept lines numbered by their place among the kept lines, not by
\* their place in the file.
KeepRenumbered(lines, k) ==
    [x \in 1..Cardinality({i \in k..Len(lines) : StripNonEmpty(lines[i])}) |-> x - 1]

RECURSIVE Keep(_, _)
Keep(lines, k) ==
    IF k > Len(lines) THEN <<>>
    ELSE (IF StripNonEmpty(lines[k]) THEN <<k - 1>> ELSE <<>>) \o Keep(lines, k + 1)

\* ctx_tokens: the counters of lines idx-4 .. idx+4 (0-based idx, clamped)
\* added up.
RECURSIVE CombineFrom(_, _, _)
CombineFrom(tokens_list, start, end) ==
    IF start >= end THEN EmptyCounter
    ELSE Update(tokens_list[start + 1], CombineFrom(tokens_list, start + 1, end))

CtxTokens(tokens_list, idx) ==
    LET start == IF idx - Window > 0 THEN idx - Window ELSE 0
        end == IF idx + Window + 1 < Len(tokens_list)
               THEN idx + Window + 1 ELSE Len(tokens_list)
    IN  CombineFrom(tokens_list, start, end)

\* A list comprehension builds its list once: the sequence with every
\* element computed.
List(f) == f \o <<>>

\* The locals map_lines computes before its loop, in a process started
\* with the given hash seed.
Locals(old, new, seed) ==
    LET keep_old == Keep(old, 1)
        keep_new == Keep(new, 1)
        norm_old == List([k \in 1..Len(keep_old) |-> Normalize(old[keep_old[k] + 1])])
        norm_new == List([k \in 1..Len(keep_new) |-> Normalize(new[keep_new[k] + 1])])
        old_tokens == List([k \in 1..Len(norm_old) |-> Counter(Tokens(norm_old[k]))])
        new_tokens == List([k \in 1..Len(norm_new) |-> Counter(Tokens(norm_new[k]))])
    IN  [keep_old |-> keep_old, keep_new |-> keep_new,
         norm_old |-> norm_old, norm_new |-> norm_new,
         old_tokens |-> old_tokens, new_tokens |-> new_tokens,
         old_ctx_tokens |->
             List([k \in 1..Len(old_tokens) |-> CtxTokens(old_tokens, k - 1)]),
         new_ctx_tokens |->
             List([k \in 1..Len(new_tokens) |-> CtxTokens(new_tokens, k - 1)]),
         old_hashes |-> List([k \in 1..Len(norm_old) |->
                            Simhash(JoinSpace(Tokens(norm_old[k])), seed)]),
         new_hashes |-> List([k \in 1..Len(norm_new) |->
                            Simhash(JoinSpace(Tokens(norm_new[k])), seed)]),
         opcodes |-> GetOpcodes(norm_old, norm_new)]

Abs(x) == IF x < 0 THEN -x ELSE x

\* A score whose bonus is kept for the pairs at one and the same offset.
PairScoreSameOffset(loc, oi, nj, oi_idx, nj_idx) ==
    LET content_sim == TfCosine(loc.old_tokens[oi + 1], loc.new_tokens[nj + 1])
        context_sim == TfCosine(loc.old_ctx_tokens[oi + 1], loc.new_ctx_tokens[nj + 1])
        pos_bonus == IF oi_idx = nj_idx THEN PosBonus ELSE 0
        base == ContentWeight * content_sim + ContextWeight * context_sim
    IN  IF base >= BonusFloor THEN base + pos_bonus ELSE base

\* A score that ignores the context profiles.
PairScoreContentOnly(loc, oi, nj, oi_idx, nj_idx) ==
    LET content_sim == TfCosine(loc.old_tokens[oi + 1], loc.new_tokens[nj + 1])
        pos_bonus == IF Abs(oi_idx - nj_idx) <= 1 THEN PosBonus ELSE 0
        base == ContentWeight * content_sim
    IN  IF base >= BonusFloor THEN base + pos_bonus ELSE base

\* A score that uses the simhashes as a pre-filter: a pair whose hashes are
\* 8 or more bits apart scores 0.
PairScoreHashPruned(loc, oi, nj, oi_idx, nj_idx) ==
    LET content_sim == TfCosine(loc.old_tokens[oi + 1], loc.new_tokens[nj + 1])
        context_sim == TfCosine(loc.old_ctx_tokens[oi + 1], loc.new_ctx_tokens[nj + 1])
        pos_bonus == IF Abs(oi_idx - nj_idx) <= 1 THEN PosBonus ELSE 0
        base == ContentWeight * content_sim + ContextWeight * context_sim
    IN  IF Hamming(loc.old_hashes[oi + 1], loc.new_hashes[nj + 1]) >= 8 THEN 0
        ELSE IF base >= BonusFloor THEN base + pos_bonus ELSE base

\* One entry of sim_matrix: kept lines oi and nj (0-based) at offsets
\* oi_idx and nj_idx of their blocks.
PairScore(loc, oi, nj, oi_idx, nj_idx) ==
    LET content_sim == TfCosine(loc.old_tokens[oi + 1], loc.new_tokens[nj + 1])
        context_sim == TfCosine(loc.old_ctx_tokens[oi + 1], loc.new_ctx_tokens[nj + 1])
        pos_bonus == IF Abs(oi_idx - nj_idx) <= 1 THEN PosBonus ELSE 0
        base == ContentWeight * content_sim + ContextWeight * context_sim
    IN  IF base >= BonusFloor THEN base + pos_bonus ELSE base

\* sim_matrix of the replace span [i1, i2) x [j1, j2).
SimMatrix(loc, i1, i2, j1, j2) ==
    List([r \in 1..(i2 - i1) |->
        List([c \in 1..(j2 - j1) |->
            PairScore(loc, i1 + r - 1, j1 + c - 1, r - 1, c - 1)])])

\* An acceptance without the threshold: every assigned pair is taken.
AcceptedAll(assignment, sim_matrix) == assignment

\* The assigned pairs (block offsets) map_lines accepts: those whose score
\* reaches the threshold, in the order of the assignment.
Accepted(assignment, sim_matrix) ==
    SelectSeq(assignment, LAMBDA pr : ~(sim_matrix[pr[1] + 1][pr[2] + 1] < Threshold))

\* Leftover with the first index of the range skipped.
RECURSIVE LeftoverFromSecond(_, _, _, _, _)
LeftoverFromSecond(lo, hi, done, keep, isOld) ==
    IF lo + 1 >= hi THEN <<>>
    ELSE (IF lo + 1 \in done THEN <<>>
          ELSE <<(IF isOld THEN LineMapping(keep[lo + 2] + 1, None)
                  ELSE LineMapping(None, keep[lo + 2] + 1))>>)
         \o LeftoverFromSecond(lo + 1, hi, done, keep, isOld)

\* Leftover with every unmapped line written as a deletion.
RECURSIVE LeftoverAsDeletion(_, _, _, _, _)
LeftoverAsDeletion(lo, hi, done, keep, isOld) ==
    IF lo >= hi THEN <<>>
    ELSE (IF lo \in done THEN <<>> ELSE <<LineMapping(keep[lo + 1] + 1, None)>>)
         \o LeftoverAsDeletion(lo + 1, hi, done, keep, isOld)

\* for x in range(lo, hi): if x not in done: append Make(x)
RECURSIVE Leftover(_, _, _, _, _)
Leftover(lo, hi, done, keep, isOld) ==
    IF lo >= hi THEN <<>>
    ELSE (IF lo \in done THEN <<>>
          ELSE <<(IF isOld THEN LineMapping(keep[lo + 1] + 1, None)
                  ELSE LineMapping(None, keep[lo + 1] + 1))>>)
         \o Leftover(lo + 1, hi, done, keep, isOld)

\* The branches of the loop over the opcodes; acc holds mappings,
\* mapped_old and mapped_new.

\* EqualSpan with every old line of the span mapped to its first new line.
EqualSpanNoOffset(loc, acc, op) ==
    [mappings |-> acc.mappings \o
         [k \in 1..(op.i2 - op.i1) |->
             LineMapping(loc.keep_old[op.i1 + k] + 1, loc.keep_new[op.j1 + 1] + 1)],
     mapped_old |-> acc.mapped_old \cup op.i1..(op.i2 - 1),
     mapped_new |-> acc.mapped_new \cup op.j1..(op.j2 - 1)]

\* tag == "equal": line i1 + k is mapped to line j1 + k.
EqualSpan(loc, acc, op) ==
    [mappings |-> acc.mappings \o
         [k \in 1..(op.i2 - op.i1) |->
             LineMapping(loc.keep_old[op.i1 + k] + 1, loc.keep_new[op.j1 + k] + 1)],
     mapped_old |-> acc.mapped_old \cup op.i1..(op.i2 - 1),
     mapped_new |-> acc.mapped_new \cup op.j1..(op.j2 - 1)]

\* tag == "replace": the accepted pairs of the assignment, then the old
\* lines of the block that are not used, then the new ones.
ReplaceSpan(loc, acc, op) ==
    LET sim_matrix == SimMatrix(loc, op.i1, op.i2, op.j1, op.j2)
        taken == Accepted(MaxAssignment(sim_matrix), sim_matrix)
        used_old == {op.i1 + taken[k][1] : k \in 1..Len(taken)}
        used_new == {op.j1 + taken[k][2] : k \in 1..Len(taken)}
    IN  [mappings |-> acc.mappings
             \o [k \in 1..Len(taken) |->
                    LineMapping(loc.keep_old[op.i1 + taken[k][1] + 1] + 1,
                                loc.keep_new[op.j1 + taken[k][2] + 1] + 1)]
             \o Leftover(op.i1, op.i2, used_old, loc.keep_old, TRUE)
             \o Leftover(op.j1, op.j2, used_new, loc.keep_new, FALSE),
         mapped_old |-> acc.mapped_old \cup op.i1..(op.i2 - 1),
         mapped_new |-> acc.mapped_new \cup op.j1..(op.j2 - 1)]

\* tag == "delete"
DeleteSpan(loc, acc, op) ==
    [mappings |-> acc.mappings
         \o Leftover(op.i1, op.i2, acc.mapped_old, loc.keep_old, TRUE),
     mapped_old |-> acc.mapped_old \cup op.i1..(op.i2 - 1),
     mapped_new |-> acc.mapped_new]

\* tag == "insert"
InsertSpan(loc, acc, op) ==
    [mappings |-> acc.mappings
         \o Leftover(op.j1, op.j2, acc.mapped_new, loc.keep_new, FALSE),
     mapped_old |-> acc.mapped_old,
     mapped_new |-> acc.mapped_new \cup op.j1..(op.j2 - 1)]

\* The body of the loop over the opcodes, for one opcode.
ApplyOpcode(loc, acc, op) ==
    CASE op.tag = "equal" -> EqualSpan(loc, acc, op)
      [] op.tag = "replace" -> ReplaceSpan(loc, acc, op)
      [] op.tag = "delete" -> DeleteSpan(loc, acc, op)
      [] op.tag = "insert" -> InsertSpan(loc, acc, op)

\* The sort key of a mapping: (old_line is None, old_line or inf,
\* new_line or inf).
SortKey(m) ==
    <<IF m.old_line = None THEN 1 ELSE 0,
      IF m.old_line # None THEN m.old_line ELSE INF,
      IF m.new_line # None THEN m.new_line ELSE INF>>

\* Tuple comparison k1 < k2.
KeyLess(k1, k2) ==
    \/ k1[1] < k2[1]
    \/ k1[1] = k2[1] /\ k1[2] < k2[2]
    \/ k1[1] = k2[1] /\ k1[2] = k2[2] /\ k1[3] < k2[3]

\* list.sort(key=...): stable, so an element goes behind the elements
\* already placed whose key is not greater.
RECURSIVE InsertSorted(_, _)
InsertSorted(sorted, m) ==
    IF sorted = <<>> THEN <<m>>
    ELSE IF KeyLess(SortKey(m), SortKey(sorted[Len(sorted)]))
         THEN Append(InsertSorted(SubSeq(sorted, 1, Len(sorted) - 1), m),
                     sorted[Len(sorted)])
         ELSE Append(sorted, m)

RECURSIVE SortFrom(_, _, _)
SortFrom(ms, k, sorted) ==
    IF k > Len(ms) THEN sorted ELSE SortFrom(ms, k + 1, InsertSorted(sorted, ms[k]))

\* The mappings left in the order the loop wrote them.
Unsorted(ms) == ms

SortMappings(ms) == SortFrom(ms, 1, <<>>)

EmptyAcc == [mappings |-> <<>>, mapped_old |-> {}, mapped_new |-> {}]

RECURSIVE RunOpcodes(_, _, _)
RunOpcodes(loc, acc, k) ==
    IF k > Len(loc.opcodes) THEN acc
    ELSE RunOpcodes(loc, ApplyOpcode(loc, acc, loc.opcodes[k]), k + 1)

\* LineMapper(old, new).map_lines() as a function of its inputs and of the
\* seed of the process that runs it.
MapLines(old, new, seed) ==
    LET loc == Locals(old, new, seed)
    IN  SortMappings(RunOpcodes(loc, EmptyAcc, 1).mappings)

---------------------------------------------------------------------------
(* The program: a process builds LineMapper(old_lines, new_lines) and calls *)
(* map_lines.                                                              *)

VARIABLES
    old_lines,      \* LineMapper.old_lines
    new_lines,      \* LineMapper.new_lines
    hash_seed,      \* the hash seed of the process
    pc,             \* where map_lines is: "start", "loop", "done"
    loc,            \* the locals map_lines computes before its loop
    op_idx,         \* the opcode the loop is at (1-based)
    mappings,       \* the local mappings
    mapped_old,     \* the local mapped_old
    mapped_new,     \* the local mapped_new
    result,         \* the list map_lines returned
    run_no,         \* how many processes have been started on these files
    first,          \* what the first process computed, once a second runs
    repo,           \* the repository: the text of each path at each commit
    files,          \* build_pairs: the argument files
    commits,        \* build_pairs: the argument commits
    max_pairs,      \* build_pairs: the argument max_pairs
    target_lines,   \* build_pairs: the argument target_lines
    bp_pc,          \* where build_pairs is
    f_idx,          \* build_pairs: the file the outer loop is at (1-based)
    c_idx,          \* build_pairs: i of the inner loop
    dataset,        \* build_pairs: the local dataset
    total_lines,    \* build_pairs: the local total_lines
    pair_idx,       \* build_pairs: the local pair_idx
    tool,           \* the validator that runs
    fs,             \* the file system: the text of each path, if it exists
    data,           \* the validator's local data, loaded from the JSON file
    val_pc,         \* where the validator is
    entry_idx,      \* the element of data the validator's loop is at (1-based)
    passed,         \* validate: the local passed
    failed,         \* validate: the local failed
    failures,       \* validate: the local failures
    total_cases,    \* validate_mappings.main: the local total_cases
    failed_cases,   \* validate_mappings.main: the local failed_cases
    all_failures,   \* validate_mappings.main: the local all_failures
    ma_matrix,      \* _max_assignment: the argument sim_matrix
    ma_result,      \* _max_assignment: the list returned
    ma_pc           \* where _max_assignment is

mlvars == <<pc, loc, op_idx, mappings, mapped_old, mapped_new, result>>

procvars == <<old_lines, new_lines, hash_seed, run_no, first>>

bpvars == <<repo, files, commits, max_pairs, target_lines, bp_pc, f_idx, c_idx,
            dataset, total_lines, pair_idx>>

valvars == <<tool, fs, data, val_pc, entry_idx, passed, failed, failures,
             total_cases, failed_cases, all_failures>>

mavars == <<ma_matrix, ma_result, ma_pc>>

vars == <<procvars, mlvars, bpvars, valvars, mavars>>

\* The longest file, in lines.
MaxLines == 3

\* The lines files are made of: "a", "b", "a b" and a blank line.
LinePool == {<<"a">>, <<"b">>, <<"a", " ", "b">>, <<" ">>}

Files(pool) == UNION {[1..n -> pool] : n \in 0..MaxLines}

NoLocals == [opcodes |-> <<>>]

\* LineMapper.__init__ in a fresh process.
Constructed(pool, seeds) ==
    /\ old_lines \in Files(pool)
    /\ new_lines \in Files(pool)
    /\ hash_seed \in seeds
    /\ pc = "start"
    /\ loc = NoLocals
    /\ op_idx = 0
    /\ mappings = <<>>
    /\ mapped_old = {}
    /\ mapped_new = {}
    /\ result = <<>>
    /\ run_no = 1
    /\ first = NoLocals

\* No dataset is being built.
NoBuild ==
    /\ repo = <<>>
    /\ files = <<>>
    /\ commits = <<>>
    /\ max_pairs = 0
    /\ target_lines = 0
    /\ bp_pc = "idle"
    /\ f_idx = 0
    /\ c_idx = 0
    /\ dataset = <<>>
    /\ total_lines = 0
    /\ pair_idx = 0

\* No validator runs.
NoValidate ==
    /\ tool = "none"
    /\ fs = <<>>
    /\ data = <<>>
    /\ val_pc = "idle"
    /\ entry_idx = 0
    /\ passed = 0
    /\ failed = 0
    /\ failures = <<>>
    /\ total_cases = 0
    /\ failed_cases = 0
    /\ all_failures = <<>>

\* _max_assignment is not called on its own.
NoAssign ==
    /\ ma_matrix = <<>>
    /\ ma_result = <<>>
    /\ ma_pc = "idle"

Init == Constructed(LinePool, {0}) /\ NoBuild /\ NoValidate /\ NoAssign

\* map_lines up to its loop: the kept lines, their normal forms, tokens,
\* contexts and simhashes, and the opcodes.
Prepare ==
    /\ pc = "start"
    /\ loc' = Locals(old_lines, new_lines, hash_seed)
    /\ mappings' = <<>>
    /\ mapped_old' = {}
    /\ mapped_new' = {}
    /\ op_idx' = 1
    /\ pc' = "loop"
    /\ UNCHANGED <<procvars, bpvars, valvars, mavars, result>>

Acc == [mappings |-> mappings, mapped_old |-> mapped_old, mapped_new |-> mapped_new]

\* The loop is at an opcode with the given tag.
AtOpcode(tag) ==
    /\ pc = "loop"
    /\ op_idx <= Len(loc.opcodes)
    /\ loc.opcodes[op_idx].tag = tag

\* The locals mappings, mapped_old and mapped_new after one turn of the
\* loop, and the loop at the next opcode.
Turn(acc) ==
    /\ mappings' = acc.mappings
    /\ mapped_old' = acc.mapped_old
    /\ mapped_new' = acc.mapped_new
    /\ op_idx' = op_idx + 1
    /\ UNCHANGED <<procvars, bpvars, valvars, mavars, pc, loc, result>>

Equal == AtOpcode("equal") /\ Turn(EqualSpan(loc, Acc, loc.opcodes[op_idx]))

Replace == AtOpcode("replace") /\ Turn(ReplaceSpan(loc, Acc, loc.opcodes[op_idx]))

Delete == AtOpcode("delete") /\ Turn(DeleteSpan(loc, Acc, loc.opcodes[op_idx]))

Insert == AtOpcode("insert") /\ Turn(InsertSpan(loc, Acc, loc.opcodes[op_idx]))

\* The loop is over: the mappings are sorted and returned.
SortReturn ==
    /\ pc = "loop"
    /\ op_idx > Len(loc.opcodes)
    /\ result' = SortMappings(mappings)
    /\ pc' = "done"
    /\ UNCHANGED <<procvars, bpvars, valvars, mavars, loc, op_idx, mappings, mapped_old, mapped_new>>

\* The else branch of the loop: raise ValueError("Unexpected tag").
UnexpectedTag ==
    /\ pc = "loop"
    /\ op_idx <= Len(loc.opcodes)
    /\ loc.opcodes[op_idx].tag \notin {"equal", "replace", "delete", "insert"}

MapLinesStep == Prepare \/ Equal \/ Replace \/ Delete \/ Insert \/ SortReturn

Next == MapLinesStep

\* One process maps two files made of the lines of LinePool.
Spec == Init /\ [][Next]_vars

---------------------------------------------------------------------------
(* The example files of the specification's testable properties *)

Alpha == <<"a", "l", "p", "h", "a">>
Beta == <<"b", "e", "t", "a">>
Gamma == <<"g", "a", "m", "m", "a">>
Xyz == <<"x", "y", "z">>

ExamplePool == {Alpha, Beta, Gamma, Xyz}

InitExample == Constructed(ExamplePool, {0}) /\ NoBuild /\ NoValidate /\ NoAssign

\* One process maps two files made of the lines alpha, beta, gamma, xyz.
SpecExample == InitExample /\ [][Next]_vars

---------------------------------------------------------------------------
(* Lines that differ in case, indentation and whitespace runs *)

\* "a", "\tA", "a  B" and a blank line.
NormPool == {<<"a">>, <<"\t", "A">>, <<"a", " ", " ", "B">>, <<" ">>}

InitNorm == Constructed(NormPool, {0}) /\ NoBuild /\ NoValidate /\ NoAssign

\* One process maps two files made of the lines of NormPool.
SpecNorm == InitNorm /\ [][Next]_vars

---------------------------------------------------------------------------
(* The same files mapped by two processes *)

\* "a", "b" and "a b".
RerunPool == {<<"a">>, <<"b">>, <<"a", " ", "b">>}

InitRerun == Constructed(RerunPool, HashSeeds) /\ NoBuild /\ NoValidate /\ NoAssign

\* main() run again: a second process, with a hash seed of its own, builds
\* LineMapper on the same files.  What the first process computed is kept
\* for comparison.
NewProcess ==
    /\ pc = "done"
    /\ run_no = 1
    /\ first' = [result |-> result, old_hashes |-> loc.old_hashes,
                 new_hashes |-> loc.new_hashes, norm_old |-> loc.norm_old,
                 norm_new |-> loc.norm_new]
    /\ run_no' = 2
    /\ hash_seed' \in HashSeeds
    /\ pc' = "start"
    /\ loc' = NoLocals
    /\ op_idx' = 0
    /\ mappings' = <<>>
    /\ mapped_old' = {}
    /\ mapped_new' = {}
    /\ result' = <<>>
    /\ UNCHANGED <<old_lines, new_lines, bpvars, valvars, mavars>>

NextRerun == MapLinesStep \/ NewProcess

\* Two processes, one after the other, map the same two files.
SpecRerun == InitRerun /\ [][NextRerun]_vars

---------------------------------------------------------------------------
(* generate_dataset.py: build_pairs *)

\* The most target_lines and max_pairs a run is given.
MaxTarget == 4
MaxPairs == 3

\* The files list_files found and the commits recent_commits found, newest
\* first.
DatasetPaths == <<"f", "g">>
DatasetCommits == <<"c0", "c1", "c2">>

\* git show fails: the path does not exist at the commit.
Missing == <<"missing">>

\* What git show prints for a path at a commit: "a\nb\n" or "\n".
TextPool == {<<"a", "\n", "b", "\n">>, <<"\n">>}

\* str.strip
RECURSIVE StripLeft(_)
StripLeft(s) ==
    IF s # <<>> /\ Head(s) \in Whitespace THEN StripLeft(Tail(s)) ELSE s

RECURSIVE StripRight(_)
StripRight(s) ==
    IF s # <<>> /\ s[Len(s)] \in Whitespace
    THEN StripRight(SubSeq(s, 1, Len(s) - 1)) ELSE s

\* run_git returns the output stripped.
StripText(s) == StripRight(StripLeft(s))

\* file_content_at returns None: git show failed.
ContentIsNone(rp, commit, path) == rp[<<commit, path>>] = Missing

\* file_content_at: the stripped output of git show, or None.
FileContentAt(rp, commit, path) ==
    IF ContentIsNone(rp, commit, path) THEN None
    ELSE StripText(rp[<<commit, path>>])

\* str.splitlines on a text whose line boundaries are "\n": cur is the line
\* being read; a last line without a boundary is a line, an empty one not.
RECURSIVE SplitLinesFrom(_, _)
SplitLinesFrom(s, cur) ==
    IF s = <<>> THEN (IF cur = <<>> THEN <<>> ELSE <<cur>>)
    ELSE IF Head(s) = "\n" THEN <<cur>> \o SplitLinesFrom(Tail(s), <<>>)
    ELSE SplitLinesFrom(Tail(s), cur \o <<Head(s)>>)

SplitLines(text) == SplitLinesFrom(text, <<>>)

\* map_pair: every line gets its "\n" back and the files are mapped.
MapPair(old_text, new_text, seed) ==
    LET old == SplitLines(old_text)
        new == SplitLines(new_text)
    IN  MapLines([k \in 1..Len(old) |-> old[k] \o <<"\n">>],
                 [k \in 1..Len(new) |-> new[k] \o <<"\n">>], seed)

\* A row of a record: {"orig": m.old_line, "new": m.new_line}.
Row(m) == [orig |-> m.old_line, new |-> m.new_line]

\* mappings without the trimming.
Untrimmed(ms, remaining) == ms

\* mappings[:remaining]
Trimmed(ms, remaining) ==
    IF remaining >= 0 THEN SubSeq(ms, 1, IF remaining < Len(ms) THEN remaining ELSE Len(ms))
    ELSE SubSeq(ms, 1, IF Len(ms) + remaining > 0 THEN Len(ms) + remaining ELSE 0)

\* total_lines >= target_lines or pair_idx >= max_pairs
CapReached == total_lines >= target_lines \/ pair_idx >= max_pairs

RECURSIVE Shuffles(_)
Shuffles(l) ==
    IF l = <<>> THEN {<<>>}
    ELSE UNION {{<<l[k]>> \o t :
                   t \in Shuffles([x \in 1..(Len(l) - 1) |->
                                          IF x < k THEN l[x] ELSE l[x + 1]])} :
                k \in 1..Len(l)}

\* No file is being mapped outside build_pairs.
NoMapper ==
    /\ old_lines = <<>>
    /\ new_lines = <<>>
    /\ hash_seed = 0
    /\ pc = "idle"
    /\ loc = NoLocals
    /\ op_idx = 0
    /\ mappings = <<>>
    /\ mapped_old = {}
    /\ mapped_new = {}
    /\ result = <<>>
    /\ run_no = 1
    /\ first = NoLocals

\* build_pairs is called on a repository.
InitDataset ==
    /\ NoMapper
    /\ NoValidate
    /\ NoAssign
    /\ commits = DatasetCommits
    /\ files = DatasetPaths
    /\ repo \in [{<<c, f>> : c \in {DatasetCommits[k] : k \in 1..Len(DatasetCommits)},
                             f \in {DatasetPaths[k] : k \in 1..Len(DatasetPaths)}}
                    -> TextPool \cup {Missing}]
    /\ max_pairs \in 0..MaxPairs
    /\ target_lines \in 0..MaxTarget
    /\ bp_pc = "start"
    /\ f_idx = 0
    /\ c_idx = 0
    /\ dataset = <<>>
    /\ total_lines = 0
    /\ pair_idx = 0

\* rng.shuffle(files) and the locals' first values; the permutation depends
\* on the argument seed.
Shuffle ==
    /\ bp_pc = "start"
    /\ files' \in Shuffles(files)
    /\ dataset' = <<>>
    /\ total_lines' = 0
    /\ pair_idx' = 0
    /\ f_idx' = 1
    /\ bp_pc' = "outer"
    /\ UNCHANGED <<procvars, mlvars, valvars, mavars, repo, commits, max_pairs, target_lines, c_idx>>

\* The outer loop has a next file and breaks on the cap: dataset is returned.
OuterBreak ==
    /\ bp_pc = "outer"
    /\ f_idx <= Len(files)
    /\ CapReached
    /\ bp_pc' = "done"
    /\ UNCHANGED <<procvars, mlvars, valvars, mavars, repo, files, commits, max_pairs, target_lines,
                   f_idx, c_idx, dataset, total_lines, pair_idx>>

\* The outer loop has a next file and enters the inner loop.
OuterEnter ==
    /\ bp_pc = "outer"
    /\ f_idx <= Len(files)
    /\ ~CapReached
    /\ c_idx' = 0
    /\ bp_pc' = "inner"
    /\ UNCHANGED <<procvars, mlvars, valvars, mavars, repo, files, commits, max_pairs, target_lines,
                   f_idx, dataset, total_lines, pair_idx>>

\* The outer loop is out of files: dataset is returned.
OuterExhausted ==
    /\ bp_pc = "outer"
    /\ f_idx > Len(files)
    /\ bp_pc' = "done"
    /\ UNCHANGED <<procvars, mlvars, valvars, mavars, repo, files, commits, max_pairs, target_lines,
                   f_idx, c_idx, dataset, total_lines, pair_idx>>

\* The inner loop is at i = c_idx and does not break at its top.
InnerAt ==
    /\ bp_pc = "inner"
    /\ c_idx < Len(commits) - 1
    /\ ~CapReached

\* One of the two texts is None: continue.
InnerSkip ==
    /\ InnerAt
    /\ \/ ContentIsNone(repo, commits[c_idx + 1], files[f_idx])
       \/ ContentIsNone(repo, commits[c_idx + 2], files[f_idx])
    /\ c_idx' = c_idx + 1
    /\ UNCHANGED <<procvars, mlvars, valvars, mavars, repo, files, commits, max_pairs, target_lines,
                   bp_pc, f_idx, dataset, total_lines, pair_idx>>

\* Both texts exist: the pair is mapped, trimmed and appended, and the loop
\* breaks to the outer loop when the cap is reached.
InnerEmit ==
    /\ InnerAt
    /\ LET fpath == files[f_idx]
           new_commit == commits[c_idx + 1]
           old_commit == commits[c_idx + 2]
           new_text == FileContentAt(repo, new_commit, fpath)
           old_text == FileContentAt(repo, old_commit, fpath)
       IN  /\ ~ContentIsNone(repo, new_commit, fpath)
           /\ ~ContentIsNone(repo, old_commit, fpath)
           /\ LET ms == MapPair(old_text, new_text, hash_seed)
                  remaining == target_lines - total_lines
                  trimmed == Trimmed(ms, remaining)
              IN  /\ total_lines' = total_lines + Len(trimmed)
                  /\ pair_idx' = pair_idx + 1
                  /\ dataset' = Append(dataset,
                        [pair |-> pair_idx + 1,
                         old_file |-> <<fpath, old_commit>>,
                         new_file |-> <<fpath, new_commit>>,
                         mappings |-> [k \in 1..Len(trimmed) |-> Row(trimmed[k])]])
    /\ IF total_lines' >= target_lines \/ pair_idx' >= max_pairs
       THEN /\ f_idx' = f_idx + 1
            /\ bp_pc' = "outer"
            /\ c_idx' = c_idx
       ELSE /\ c_idx' = c_idx + 1
            /\ UNCHANGED <<bp_pc, f_idx>>
    /\ UNCHANGED <<procvars, mlvars, valvars, mavars, repo, files, commits, max_pairs, target_lines>>

\* The inner loop is out of commits: the outer loop goes to its next file.
InnerExhausted ==
    /\ bp_pc = "inner"
    /\ c_idx >= Len(commits) - 1
    /\ f_idx' = f_idx + 1
    /\ bp_pc' = "outer"
    /\ UNCHANGED <<procvars, mlvars, valvars, mavars, repo, files, commits, max_pairs, target_lines,
                   c_idx, dataset, total_lines, pair_idx>>

\* The break at the top of the inner loop: the cap was checked by the outer
\* loop, or by the break after the append, before every turn gets here.
InnerBreak ==
    /\ bp_pc = "inner"
    /\ c_idx < Len(commits) - 1
    /\ CapReached

NextDataset ==
    \/ Shuffle
    \/ OuterBreak
    \/ OuterEnter
    \/ OuterExhausted
    \/ InnerSkip
    \/ InnerEmit
    \/ InnerExhausted

\* One run of build_pairs on a repository of two paths and three commits.
SpecDataset == InitDataset /\ [][NextDataset]_vars

---------------------------------------------------------------------------
(* validate_new_dataset.py and validate_mappings.py *)

\* The most elements the loaded JSON array has, and the most versions a
\* test case has.
MaxEntries == 2
MaxVersions == 2

\* The paths the JSON names, and what read_text finds there: "a\nb\n",
\* "b\n", or no file.
ValPaths == {"p", "q"}
ValTexts == {<<"a", "\n", "b", "\n">>, <<"b", "\n">>}

\* A java_path that is null or empty.
NoPath == ""

\* str.splitlines(keepends=True) on a text whose line boundaries are "\n".
RECURSIVE SplitKeepEnds(_, _)
SplitKeepEnds(s, cur) ==
    IF s = <<>> THEN (IF cur = <<>> THEN <<>> ELSE <<cur>>)
    ELSE IF Head(s) = "\n" THEN <<cur \o <<"\n">> >> \o SplitKeepEnds(Tail(s), <<>>)
    ELSE SplitKeepEnds(Tail(s), cur \o <<Head(s)>>)

\* read_text raises: there is no file at the path.
ReadRaises(path) == fs[path] = Missing

\* The mappings mapping_for_files computes from the two files.
FileMappings(old_path, new_path, seed) ==
    MapLines(SplitKeepEnds(fs[old_path], <<>>), SplitKeepEnds(fs[new_path], <<>>), seed)

\* Some old line is the old side of two mappings.
Duplicate(ms) ==
    \E k1, k2 \in 1..Len(ms) :
        k1 < k2 /\ ms[k1].old_line # None /\ ms[k1].old_line = ms[k2].old_line

\* The dict mapping_for_files builds from the mappings ms: old line -> new
\* line; where two mappings have one old line, validate_new_dataset keeps
\* the first (validate_mappings raises, see Duplicate).
MappingDict(ms) ==
    [i \in {ms[k].old_line : k \in 1..Len(ms)} \ {None} |->
        ms[CHOOSE k \in 1..Len(ms) :
              /\ ms[k].old_line = i
              /\ \A k2 \in 1..(k - 1) : ms[k2].old_line # i].new_line]

\* dict.get: None where the key is absent.
DictGet(d, key) == IF key \in DOMAIN d THEN d[key] ELSE None

\* The dict {m["orig"]: m["new"] for m in mappings if m["orig"] is not None}
\* as its items in order: a key stands where it first came, with the value
\* that came last.
ExpectedItems(ms) ==
    LET firsts == SelectSeq([k \in 1..Len(ms) |-> k],
                     LAMBDA k : /\ ms[k].orig # None
                                /\ \A k2 \in 1..(k - 1) : ms[k2].orig # ms[k].orig)
    IN  [x \in 1..Len(firsts) |->
            LET orig == ms[firsts[x]].orig
                last == CHOOSE k \in 1..Len(ms) :
                           /\ ms[k].orig = orig
                           /\ \A k2 \in (k + 1)..Len(ms) : ms[k2].orig # orig
            IN  [orig |-> orig, new |-> ms[last].new]]

\* pair_failures of validate for one entry whose files were read.
RECURSIVE PairFailures(_, _, _)
PairFailures(entry, items, actual) ==
    IF items = <<>> THEN <<>>
    ELSE LET act_new == DictGet(actual, Head(items).orig)
         IN  (IF act_new # Head(items).new
              THEN <<[old_file |-> entry.old_file, new_file |-> entry.new_file,
                      orig |-> Head(items).orig, expected |-> Head(items).new,
                      got |-> act_new]>>
              ELSE <<>>)
             \o PairFailures(entry, Tail(items), actual)

\* The mappings a dataset entry or a version's locations may hold.
ExpectedPool ==
    {<<>>, <<[orig |-> 1, new |-> 1]>>,
     <<[orig |-> 1, new |-> None], [orig |-> 2, new |-> 1]>>,
     <<[orig |-> None, new |-> 1], [orig |-> 1, new |-> 2]>>}

EntryPool ==
    [old_file : ValPaths, new_file : ValPaths, mappings : ExpectedPool]

\* sorted(test["versions"], key=lambda v: v["number"])
RECURSIVE SortVersions(_)
SortVersions(vs) ==
    IF vs = <<>> THEN <<>>
    ELSE LET rest == SortVersions(SubSeq(vs, 1, Len(vs) - 1))
             v == vs[Len(vs)]
             n == Cardinality({k \in 1..Len(rest) : rest[k].number <= v.number})
         IN  SubSeq(rest, 1, n) \o <<v>> \o SubSeq(rest, n + 1, Len(rest))

\* What validate_test_case appends for locs against actual_map.
LocationFailures(test, prev, current, locs, actual_map) ==
    LET bad == SelectSeq(locs, LAMBDA l : DictGet(actual_map, l.orig) # l.new)
    IN  [x \in 1..Len(bad) |->
            [file |-> test.file, prev |-> prev.number, current |-> current.number,
             orig |-> bad[x].orig, expected |-> bad[x].new,
             got |-> DictGet(actual_map, bad[x].orig)]]

\* One pair whose files were read and mapped to ms: mapping_for_files
\* raises on a duplicate, else the locations are compared.
PairChecked(test, prev, current, ms) ==
    IF Duplicate(ms) THEN [raised |-> TRUE, failures |-> <<>>]
    ELSE [raised |-> FALSE,
          failures |-> LocationFailures(test, prev, current, current.locations,
                                        MappingDict(ms))]

\* One turn of the loop of validate_test_case: the failures it appends, or
\* the exception that leaves the function.
PairOutcome(test, prev, current, seed) ==
    IF prev.java_path = NoPath
    THEN [raised |-> FALSE,
          failures |-> <<[file |-> test.file, version |-> prev.number,
                          missing |-> TRUE]>>]
    ELSE IF current.java_path = NoPath
    THEN [raised |-> FALSE,
          failures |-> <<[file |-> test.file, version |-> current.number,
                          missing |-> TRUE]>>]
    ELSE IF ReadRaises(prev.java_path) \/ ReadRaises(current.java_path)
    THEN [raised |-> TRUE, failures |-> <<>>]
    ELSE PairChecked(test, prev, current,
                     FileMappings(prev.java_path, current.java_path, seed))

\* A turn followed by the rest of the loop: an exception ends the function.
Then(outcome, rest) ==
    IF outcome.raised THEN outcome
    ELSE [raised |-> rest.raised, failures |-> outcome.failures \o rest.failures]

\* validate_test_case from the pair (versions[k], versions[k+1]) on.
RECURSIVE CaseFrom(_, _, _, _)
CaseFrom(test, versions, k, seed) ==
    IF k >= Len(versions) THEN [raised |-> FALSE, failures |-> <<>>]
    ELSE Then(PairOutcome(test, versions[k], versions[k + 1], seed),
              CaseFrom(test, versions, k + 1, seed))

ValidateTestCase(test, seed) == CaseFrom(test, SortVersions(test.versions), 1, seed)

VersionPool ==
    [number : 1..MaxVersions, java_path : ValPaths \cup {NoPath},
     locations : {<<[orig |-> 1, new |-> 1]>>}]

\* The test cases: versions with numbers of their own, in any order.
TestPool ==
    {[file |-> "t", versions |-> vs] :
        vs \in {v \in UNION {[1..n -> VersionPool] : n \in 0..MaxVersions} :
                   \A k1, k2 \in 1..Len(v) : k1 # k2 => v[k1].number # v[k2].number}}

\* A validator is started on a JSON file and a file system.
InitValidate ==
    /\ NoMapper
    /\ NoBuild
    /\ NoAssign
    /\ tool \in {"validate_new_dataset", "validate_mappings"}
    /\ fs \in [ValPaths -> ValTexts \cup {Missing}]
    /\ data \in UNION {[1..n -> IF tool = "validate_new_dataset"
                                THEN EntryPool ELSE TestPool] : n \in 0..MaxEntries}
    /\ val_pc = "start"
    /\ entry_idx = 0
    /\ passed = 0
    /\ failed = 0
    /\ failures = <<>>
    /\ total_cases = 0
    /\ failed_cases = 0
    /\ all_failures = <<>>

notvalvars == <<procvars, mlvars, bpvars, mavars>>

\* validate: data is loaded and the counters are set.
LoadDataset ==
    /\ tool = "validate_new_dataset"
    /\ val_pc = "start"
    /\ passed' = 0
    /\ failed' = 0
    /\ failures' = <<>>
    /\ entry_idx' = 1
    /\ val_pc' = "loop"
    /\ UNCHANGED <<notvalvars, tool, fs, data, total_cases, failed_cases, all_failures>>

\* validate is at an entry.
AtEntry ==
    /\ tool = "validate_new_dataset"
    /\ val_pc = "loop"
    /\ entry_idx <= Len(data)

\* A file of the entry cannot be read.
EntryUnreadable ==
    ReadRaises(data[entry_idx].old_file) \/ ReadRaises(data[entry_idx].new_file)

\* pair_failures of an entry whose files were read and mapped to ms.
EntryFailuresOf(entry, ms) ==
    PairFailures(entry, ExpectedItems(entry.mappings), MappingDict(ms))

\* pair_failures of the entry validate is at.
EntryFailures ==
    EntryFailuresOf(data[entry_idx],
        FileMappings(data[entry_idx].old_file, data[entry_idx].new_file, hash_seed))

\* if pair_failures: failed += 1; failures.extend(pair_failures)
CountFailed(pair_failures) ==
    /\ pair_failures # <<>>
    /\ failed' = failed + 1
    /\ failures' = failures \o pair_failures

\* read_text raises in mapping_for_files: nothing catches the exception,
\* which leaves validate and main.
EntryRaises ==
    /\ AtEntry
    /\ EntryUnreadable
    /\ val_pc' = "raised"
    /\ UNCHANGED <<notvalvars, tool, fs, data, entry_idx, passed, failed, failures,
                   total_cases, failed_cases, all_failures>>

\* The entry has pair_failures.
EntryFailed ==
    /\ AtEntry
    /\ ~EntryUnreadable
    /\ CountFailed(EntryFailures)
    /\ entry_idx' = entry_idx + 1
    /\ UNCHANGED <<notvalvars, tool, fs, data, val_pc, passed,
                   total_cases, failed_cases, all_failures>>

\* The entry has no pair_failures.
EntryPassed ==
    /\ AtEntry
    /\ ~EntryUnreadable
    /\ EntryFailures = <<>>
    /\ passed' = passed + 1
    /\ entry_idx' = entry_idx + 1
    /\ UNCHANGED <<notvalvars, tool, fs, data, val_pc, failed, failures,
                   total_cases, failed_cases, all_failures>>

\* validate returns and main writes the summary.
ValidateReport ==
    /\ tool = "validate_new_dataset"
    /\ val_pc = "loop"
    /\ entry_idx > Len(data)
    /\ val_pc' = "reported"
    /\ UNCHANGED <<notvalvars, tool, fs, data, entry_idx, passed, failed, failures,
                   total_cases, failed_cases, all_failures>>

\* validate_mappings.main: data is loaded and the counters are set.
LoadTests ==
    /\ tool = "validate_mappings"
    /\ val_pc = "start"
    /\ all_failures' = <<>>
    /\ total_cases' = 0
    /\ failed_cases' = 0
    /\ entry_idx' = 1
    /\ val_pc' = "loop"
    /\ UNCHANGED <<notvalvars, tool, fs, data, passed, failed, failures>>

\* main is at a test case.
AtCase ==
    /\ tool = "validate_mappings"
    /\ val_pc = "loop"
    /\ entry_idx <= Len(data)

\* validate_test_case raises: nothing catches the exception, which leaves
\* main after total_cases was counted up.
CaseRaises ==
    /\ AtCase
    /\ ValidateTestCase(data[entry_idx], hash_seed).raised
    /\ total_cases' = total_cases + 1
    /\ val_pc' = "raised"
    /\ UNCHANGED <<notvalvars, tool, fs, data, entry_idx, passed, failed, failures,
                   failed_cases, all_failures>>

\* if failures: failed_cases += 1; all_failures.extend(failures)
CountCase(res) ==
    /\ ~res.raised
    /\ IF res.failures # <<>>
       THEN /\ failed_cases' = failed_cases + 1
            /\ all_failures' = all_failures \o res.failures
       ELSE UNCHANGED <<failed_cases, all_failures>>

\* validate_test_case returns its failures.
CaseChecked ==
    /\ AtCase
    /\ CountCase(ValidateTestCase(data[entry_idx], hash_seed))
    /\ total_cases' = total_cases + 1
    /\ entry_idx' = entry_idx + 1
    /\ UNCHANGED <<notvalvars, tool, fs, data, val_pc, passed, failed, failures>>

\* main prints the failures and the summary.
MainReport ==
    /\ tool = "validate_mappings"
    /\ val_pc = "loop"
    /\ entry_idx > Len(data)
    /\ val_pc' = "reported"
    /\ UNCHANGED <<notvalvars, tool, fs, data, entry_idx, passed, failed, failures,
                   total_cases, failed_cases, all_failures>>

NextValidate ==
    \/ LoadDataset
    \/ EntryRaises
    \/ EntryFailed
    \/ EntryPassed
    \/ ValidateReport
    \/ LoadTests
    \/ CaseRaises
    \/ CaseChecked
    \/ MainReport

\* One run of one of the two validators.
SpecValidate == InitValidate /\ [][NextValidate]_vars

---------------------------------------------------------------------------
(* _max_assignment called on a matrix of its own *)

\* The most rows and columns of a matrix, and its largest score.
MaxDim == 3
MaxScore == 2

\* The matrices: no row, a row without columns, and n x m scores.
Matrices ==
    {<<>>, << <<>> >>}
    \cup UNION {[1..n -> [1..m -> 0..MaxScore]] : n \in 1..MaxDim, m \in 1..MaxDim}

InitAssign ==
    /\ NoMapper
    /\ NoBuild
    /\ NoValidate
    /\ ma_matrix \in Matrices
    /\ ma_result = <<>>
    /\ ma_pc = "start"

\* not sim_matrix or not sim_matrix[0]
NoScores(m) == IF m = <<>> THEN TRUE ELSE m[1] = <<>>

\* if not sim_matrix or not sim_matrix[0]: return []
ReturnEmpty ==
    /\ ma_pc = "start"
    /\ NoScores(ma_matrix)
    /\ ma_result' = <<>>
    /\ ma_pc' = "done"
    /\ UNCHANGED <<procvars, mlvars, bpvars, valvars, ma_matrix>>

\* The matrix has a score: the assignment is solved and returned.
Solve ==
    /\ ma_pc = "start"
    /\ ~NoScores(ma_matrix)
    /\ ma_result' = MaxAssignment(ma_matrix)
    /\ ma_pc' = "done"
    /\ UNCHANGED <<procvars, mlvars, bpvars, valvars, ma_matrix>>

NextAssign == ReturnEmpty \/ Solve

\* One call of _max_assignment.
SpecAssign == InitAssign /\ [][NextAssign]_vars

---------------------------------------------------------------------------
(* Properties of the list map_lines returns *)

Done == pc = "done"

Entries == {result[k] : k \in 1..Len(result)}

\* The number of entries whose old side is line i / whose new side is j.
OldCount(i) == Cardinality({k \in 1..Len(result) : result[k].old_line = i})
NewCount(j) == Cardinality({k \in 1..Len(result) : result[k].new_line = j})

\* Line i of a file is whitespace only.
Blank(lines, i) == \A k \in 1..Len(lines[i]) : lines[i][k] \in Whitespace

\* C1 as stated: every line 1..N of the old file is the old side of exactly
\* one returned entry, and every line 1..M of the new file the new side of
\* exactly one, whatever the line holds.
C1_TotalityAllLines ==
    Done => /\ \A i \in 1..Len(old_lines) : OldCount(i) = 1
            /\ \A j \in 1..Len(new_lines) : NewCount(j) = 1

\* C1 amended: every line that is not whitespace only is the side of
\* exactly one returned entry, a whitespace-only line is the side of none,
\* and no entry names a line outside the files.
C1_TotalityNonBlank ==
    Done => /\ \A i \in 1..Len(old_lines) :
                  OldCount(i) = IF Blank(old_lines, i) THEN 0 ELSE 1
            /\ \A j \in 1..Len(new_lines) :
                  NewCount(j) = IF Blank(new_lines, j) THEN 0 ELSE 1
            /\ \A m \in Entries : /\ m.old_line \in {None} \cup 1..Len(old_lines)
                                  /\ m.new_line \in {None} \cup 1..Len(new_lines)

\* A run that met all four kinds of opcode on files with a blank line.
C1_Witness ==
    /\ Done
    /\ \E i \in 1..Len(old_lines) : Blank(old_lines, i)
    /\ \E i \in 1..Len(old_lines) : ~Blank(old_lines, i)
    /\ \E j \in 1..Len(new_lines) : ~Blank(new_lines, j)
    /\ \E k \in 1..Len(loc.opcodes) : loc.opcodes[k].tag = "replace"
    /\ \E k \in 1..Len(loc.opcodes) : loc.opcodes[k].tag = "equal"

\* C2: the matched entries are a partial injective function: no old line
\* is in two entries with a new side, no new line in two entries with an
\* old side, and no entry lacks both sides.
C2_Injective ==
    Done => /\ \A k1, k2 \in 1..Len(result) :
                  /\ result[k1].old_line # None
                  /\ result[k1].new_line # None
                  /\ result[k2].old_line # None
                  /\ result[k2].new_line # None
                  /\ k1 # k2
                  => /\ result[k1].old_line # result[k2].old_line
                     /\ result[k1].new_line # result[k2].new_line
            /\ \A m \in Entries : ~(m.old_line = None /\ m.new_line = None)

\* A run whose replace span of at least two lines on each side gave two
\* matched entries.
C2_Witness ==
    /\ Done
    /\ \E k \in 1..Len(loc.opcodes) :
          LET op == loc.opcodes[k]
              olds == {loc.keep_old[x + 1] + 1 : x \in op.i1..(op.i2 - 1)}
          IN  /\ op.tag = "replace"
              /\ op.i2 - op.i1 >= 2
              /\ op.j2 - op.j1 >= 2
              /\ Cardinality({m \in Entries :
                                 m.old_line \in olds /\ m.new_line # None}) >= 2

\* (i,i), (i+1,i+1), ..., (n,n) without the whitespace-only lines.
RECURSIVE DiagonalFrom(_, _)
DiagonalFrom(lines, i) ==
    IF i > Len(lines) THEN <<>>
    ELSE (IF Blank(lines, i) THEN <<>> ELSE <<LineMapping(i, i)>>)
         \o DiagonalFrom(lines, i + 1)

\* C3 as stated: on two equal files of N lines the result is exactly
\* (1,1), (2,2), ..., (N,N), in that order.
C3_IdentityAllLines ==
    Done /\ old_lines = new_lines
        => result = [i \in 1..Len(old_lines) |-> LineMapping(i, i)]

\* C3 amended: on two equal files the result is exactly the entries (i,i)
\* of the lines i that are not whitespace only, in ascending order; so it
\* is (1,1), ..., (N,N) when no line is whitespace only.
C3_IdentityNonBlank ==
    Done /\ old_lines = new_lines => result = DiagonalFrom(old_lines, 1)

\* Two equal files of at least two lines that are not blank, and a blank
\* one.
C3_Witness ==
    /\ Done
    /\ old_lines = new_lines
    /\ Len(result) >= 2
    /\ Len(result) < Len(old_lines)

\* C7: the entries with an old side come first, in strictly ascending
\* order of old_line; the entries without one follow, in strictly ascending
\* order of new_line; and no two entries have the same sort key.
C7_Ordering ==
    Done => /\ \A k1, k2 \in 1..Len(result) :
                  k1 < k2 =>
                     /\ result[k1].old_line = None => result[k2].old_line = None
                     /\ result[k1].old_line # None /\ result[k2].old_line # None
                            => result[k1].old_line < result[k2].old_line
                     /\ result[k1].old_line = None /\ result[k2].old_line = None
                            => result[k1].new_line < result[k2].new_line
                     /\ SortKey(result[k1]) # SortKey(result[k2])

\* A run whose sort moved entries: insertions written before entries with
\* an old side.
C7_Witness ==
    /\ Done
    /\ result # mappings
    /\ Cardinality({k \in 1..Len(result) : result[k].old_line = None}) >= 2
    /\ Cardinality({k \in 1..Len(result) : result[k].old_line # None}) >= 2

\* C8: an empty file is not an error.  With no old lines map_lines runs to
\* its return and returns insertions only, with no new lines deletions
\* only, and with neither the empty list.
C8_Degenerate ==
    /\ old_lines = <<>> \/ new_lines = <<>> => ~UnexpectedTag
    /\ Done /\ old_lines = <<>> =>
          \A m \in Entries : m.old_line = None /\ m.new_line # None
    /\ Done /\ new_lines = <<>> =>
          \A m \in Entries : m.old_line # None /\ m.new_line = None
    /\ Done /\ old_lines = <<>> /\ new_lines = <<>> => result = <<>>

\* A run on no old lines that returned two insertions.
C8_Witness ==
    /\ Done
    /\ old_lines = <<>>
    /\ Len(result) >= 2

---------------------------------------------------------------------------
(* Properties of the replace span of the example files *)

\* The opcodes of two three-line files whose middle lines form a replace
\* span between two anchors.
AnchoredReplace ==
    <<Op("equal", 0, 1, 0, 1), Op("replace", 1, 2, 1, 2), Op("equal", 2, 3, 2, 3)>>

\* C4 as stated: old = [alpha, beta, gamma] and new = [alpha, xyz, gamma]
\* yield the entries (1,1), (2,None), (3,3) and (None,2), and not (2,2).
C4_ExampleUnmatched ==
    Done /\ old_lines = <<Alpha, Beta, Gamma>> /\ new_lines = <<Alpha, Xyz, Gamma>>
        => /\ Entries = {LineMapping(1, 1), LineMapping(2, None),
                         LineMapping(3, 3), LineMapping(None, 2)}
           /\ LineMapping(2, 2) \notin Entries

\* C4 amended: a single old line and a single new line that form a replace
\* span between two anchors of three-line files are matched even when they
\* share no token, because their context profiles hold the anchors: the
\* result is (1,1), (2,2), (3,3).  Two one-line files whose lines share no
\* token have no anchors, and yield (1,None) and (None,1).
C4_AnchoredReplaceMatched ==
    /\ Done /\ Len(old_lines) = 3 /\ Len(new_lines) = 3
            /\ loc.opcodes = AnchoredReplace
        => result = <<LineMapping(1, 1), LineMapping(2, 2), LineMapping(3, 3)>>
    /\ Done /\ Len(old_lines) = 1 /\ Len(new_lines) = 1
            /\ old_lines # new_lines
        => result = <<LineMapping(1, None), LineMapping(None, 1)>>

\* The run on the example files is over: beta and xyz, which share no
\* token, were the replace span between the anchors alpha and gamma.
C4_Witness ==
    /\ Done
    /\ old_lines = <<Alpha, Beta, Gamma>>
    /\ new_lines = <<Alpha, Xyz, Gamma>>
    /\ loc.opcodes = AnchoredReplace
    /\ TfCosine(loc.old_tokens[2], loc.new_tokens[2]) = 0

---------------------------------------------------------------------------
(* Properties of two processes mapping the same files *)

\* The second process has returned.
SecondDone == run_no = 2 /\ pc = "done"

\* C5: the second process returns the list the first returned, the same
\* entries in the same order, whatever the hash seeds of the two processes.
C5_Determinism == SecondDone => result = first.result

\* Both processes have returned, their simhashes differ, and a replace
\* span gave a matched entry.
C5_Witness ==
    /\ SecondDone
    /\ loc.old_hashes # first.old_hashes
    /\ \E k \in 1..Len(loc.opcodes) :
          LET op == loc.opcodes[k]
          IN  /\ op.tag = "replace"
              /\ \E m \in Entries :
                    /\ m.new_line # None
                    /\ \E x \in op.i1..(op.i2 - 1) : m.old_line = loc.keep_old[x + 1] + 1

\* C6 as stated: the simhash of a text is a function of the text alone, so
\* the second process computes, for the same lines, the simhashes the first
\* process computed.
C6_SimhashSeedFree ==
    SecondDone => /\ loc.norm_old = first.norm_old
                  /\ loc.norm_new = first.norm_new
                  /\ loc.old_hashes = first.old_hashes
                  /\ loc.new_hashes = first.new_hashes

---------------------------------------------------------------------------
(* Properties of normalization *)

\* The line with its letters in lower case, its indentation removed and its
\* whitespace runs made one space.
RECURSIVE Squeeze(_, _)
Squeeze(s, pending) ==
    IF s = <<>> THEN <<>>
    ELSE IF Head(s) \in Whitespace THEN Squeeze(Tail(s), TRUE)
    ELSE (IF pending THEN <<" ">> ELSE <<>>)
         \o <<LowerChar(Head(s))>> \o Squeeze(Tail(s), FALSE)

RECURSIVE DropLeadingSpace(_)
DropLeadingSpace(s) ==
    IF s # <<>> /\ Head(s) = " " THEN DropLeadingSpace(Tail(s)) ELSE s

CaseSpaceForm(line) == DropLeadingSpace(Squeeze(line, FALSE))

CaseSpaceForms(lines) == [k \in 1..Len(lines) |-> CaseSpaceForm(lines[k])]

\* C9: the returned mapping is the mapping of the files with every line
\* replaced by its lower-case, unindented, single-spaced form; so two files
\* whose lines differ only in case, indentation or the length of whitespace
\* runs map like two equal files.
C9_NormalizedDecides ==
    /\ Done => result = MapLines(CaseSpaceForms(old_lines),
                                 CaseSpaceForms(new_lines), hash_seed)
    /\ Done /\ CaseSpaceForms(old_lines) = CaseSpaceForms(new_lines)
        => result = DiagonalFrom(old_lines, 1)

\* A run that anchored as equal two lines that differ as written.
C9_Witness ==
    /\ Done
    /\ \E k \in 1..Len(loc.opcodes) :
          LET op == loc.opcodes[k]
          IN  /\ op.tag = "equal"
              /\ \E d \in 0..(op.i2 - op.i1 - 1) :
                    LET i == loc.keep_old[op.i1 + d + 1] + 1
                        j == loc.keep_new[op.j1 + d + 1] + 1
                    IN  /\ old_lines[i] # new_lines[j]
                        /\ LineMapping(i, j) \in Entries
    /\ \E k \in 1..Len(loc.opcodes) : loc.opcodes[k].tag = "replace"

---------------------------------------------------------------------------
(* Properties of build_pairs *)

RECURSIVE RowsEmitted(_)
RowsEmitted(ds) ==
    IF ds = <<>> THEN 0 ELSE Len(Head(ds).mappings) + RowsEmitted(Tail(ds))

\* All rows of the map_lines result for the two files a record names.
FullRows(rec) ==
    LET ms == MapPair(FileContentAt(repo, rec.old_file[2], rec.old_file[1]),
                      FileContentAt(repo, rec.new_file[2], rec.new_file[1]),
                      hash_seed)
    IN  [k \in 1..Len(ms) |-> Row(ms[k])]

IsPrefix(p, l) == Len(p) <= Len(l) /\ p = SubSeq(l, 1, Len(p))

\* C10: at every point of build_pairs the rows emitted so far are at most
\* target_lines, the records at most max_pairs, every record's mappings are
\* a prefix of the map_lines result for its pair, the pair fields are
\* 1, 2, ..., k in emission order, and the break at the top of the inner
\* loop is never taken.
C10_DatasetCap ==
    /\ RowsEmitted(dataset) <= target_lines
    /\ total_lines = RowsEmitted(dataset)
    /\ Len(dataset) <= max_pairs
    /\ pair_idx = Len(dataset)
    /\ \A k \in 1..Len(dataset) :
          /\ dataset[k].pair = k
          /\ IsPrefix(dataset[k].mappings, FullRows(dataset[k]))
    /\ ~InnerBreak

\* build_pairs returned two records after skipping the newest pair of its
\* first file for missing content, and the last record was trimmed.
C10_Witness ==
    /\ bp_pc = "done"
    /\ Len(dataset) = 2
    /\ repo[<<commits[1], files[1]>>] = Missing
    /\ Len(dataset[2].mappings) < Len(FullRows(dataset[2]))
    /\ Len(dataset[2].mappings) > 0

---------------------------------------------------------------------------
(* Properties of the validators *)

\* The pairs of the loaded dataset that cannot be read.
UnreadablePairs ==
    {k \in 1..Len(data) : ReadRaises(data[k].old_file) \/ ReadRaises(data[k].new_file)}

\* C11: a validator never aborts the batch: it does not end by an exception
\* that a pair raised, and when validate_new_dataset has ended, every pair
\* has been tallied, passed + failed = number of pairs, and every pair that
\* cannot be read has been counted as failed.
C11_BatchNeverAborts ==
    /\ val_pc # "raised"
    /\ tool = "validate_new_dataset" /\ val_pc = "reported"
        => /\ passed + failed = Len(data)
           /\ failed >= Cardinality(UnreadablePairs)

---------------------------------------------------------------------------
(* Properties of the replace spans *)

\* The replace opcodes of the run.
ReplaceOps == {k \in 1..Len(loc.opcodes) : loc.opcodes[k].tag = "replace"}

\* The old and the new line number of the pair pr of block offsets of op.
OldLineOf(op, pr) == loc.keep_old[op.i1 + pr[1] + 1] + 1
NewLineOf(op, pr) == loc.keep_new[op.j1 + pr[2] + 1] + 1

\* Every pair the solver assigned in the span op is a matched entry when its
\* score reaches the threshold, and else a deletion and an insertion; and
\* every matched entry with its old line in the span is an assigned pair
\* whose score reaches the threshold.
SpanKeepsThreshold(op, sim_matrix, assignment) ==
    /\ \A x \in 1..Len(assignment) :
          LET pr == assignment[x]
              i == OldLineOf(op, pr)
              j == NewLineOf(op, pr)
          IN  IF sim_matrix[pr[1] + 1][pr[2] + 1] >= Threshold
              THEN LineMapping(i, j) \in Entries
              ELSE /\ LineMapping(i, None) \in Entries
                   /\ LineMapping(None, j) \in Entries
                   /\ LineMapping(i, j) \notin Entries
    /\ \A m \in Entries :
          /\ m.old_line # None
          /\ m.new_line # None
          /\ \E r \in 0..(op.i2 - op.i1 - 1) : m.old_line = OldLineOf(op, <<r, 0>>)
          => \E r \in 0..(op.i2 - op.i1 - 1), c \in 0..(op.j2 - op.j1 - 1) :
                /\ m = LineMapping(OldLineOf(op, <<r, c>>), NewLineOf(op, <<r, c>>))
                /\ sim_matrix[r + 1][c + 1] >= Threshold

\* The span op holds an assigned pair below the threshold.
SpanHasRejected(sim_matrix, assignment) ==
    \E x \in 1..Len(assignment) :
        sim_matrix[assignment[x][1] + 1][assignment[x][2] + 1] < Threshold

SpanMatrix(op) == SimMatrix(loc, op.i1, op.i2, op.j1, op.j2)

SpanAssignment(op) == MaxAssignment(SpanMatrix(op))

\* C12: in the returned list every matched entry of a replace span has a
\* score of at least 0.1, and every pair the assignment solver returned
\* with a score below 0.1 is a deletion (i,None) and an insertion (None,j).
C12_ThresholdEligibility ==
    Done => \A k \in ReplaceOps :
                SpanKeepsThreshold(loc.opcodes[k], SpanMatrix(loc.opcodes[k]),
                                   SpanAssignment(loc.opcodes[k]))

\* A run with a replace span of two old and two new lines in which the
\* solver assigned a pair below the threshold.
C12_Witness ==
    /\ Done
    /\ \E k \in ReplaceOps :
          /\ loc.opcodes[k].i2 - loc.opcodes[k].i1 >= 2
          /\ loc.opcodes[k].j2 - loc.opcodes[k].j1 >= 2
          /\ SpanHasRejected(SpanMatrix(loc.opcodes[k]), SpanAssignment(loc.opcodes[k]))

---------------------------------------------------------------------------
(* Properties of _max_assignment *)

\* The total score of the pairs (row, column), 0-based, of an assignment.
RECURSIVE TotalScore(_, _)
TotalScore(m, asg) ==
    IF asg = <<>> THEN 0
    ELSE m[Head(asg)[1] + 1][Head(asg)[2] + 1] + TotalScore(m, Tail(asg))

\* The largest total score of a one-to-one assignment of the rows r, r+1,
\* ... of m to the columns not yet taken; a row may stay without a column.
RECURSIVE BestTotal(_, _, _)
BestTotal(m, r, taken) ==
    IF r > Len(m) THEN 0
    ELSE SetMax({BestTotal(m, r + 1, taken)}
                \cup {m[r][c] + BestTotal(m, r + 1, taken \cup {c}) :
                         c \in (1..Len(m[r])) \ taken})

Smaller(a, b) == IF a < b THEN a ELSE b

\* C13: on a matrix of n >= 1 rows and m >= 1 columns of non-negative
\* scores _max_assignment returns min(n,m) pairs inside the matrix, no row
\* and no column in two of them, whose total score is the largest total
\* score of any one-to-one assignment of rows to columns.
C13_GlobalOptimum ==
    ma_pc = "done" /\ ~NoScores(ma_matrix)
        => /\ Len(ma_result) = Smaller(Len(ma_matrix), Len(ma_matrix[1]))
           /\ \A k \in 1..Len(ma_result) :
                 /\ ma_result[k][1] \in 0..(Len(ma_matrix) - 1)
                 /\ ma_result[k][2] \in 0..(Len(ma_matrix[1]) - 1)
           /\ \A k1, k2 \in 1..Len(ma_result) :
                 k1 # k2 => /\ ma_result[k1][1] # ma_result[k2][1]
                            /\ ma_result[k1][2] # ma_result[k2][2]
           /\ TotalScore(ma_matrix, ma_result) = BestTotal(ma_matrix, 1, {})

\* The call returned on a matrix with more rows than columns on which
\* pairing row k with column k is not the best assignment.
C13_Witness ==
    /\ ma_pc = "done"
    /\ Len(ma_matrix) = 3
    /\ Len(ma_matrix[1]) = 2
    /\ TotalScore(ma_matrix, ma_result) > ma_matrix[1][1] + ma_matrix[2][2]
    /\ \E k \in 1..Len(ma_result) : ma_result[k][1] = 2

---------------------------------------------------------------------------
(* Properties of the scores of a replace span *)

\* 0.7 * content + 0.3 * context of the old line at offset r and the new
\* line at offset c of the span op, in 1/10000.
BaseScore(op, r, c) ==
    7 * TfCosine(loc.old_tokens[op.i1 + r + 1], loc.new_tokens[op.j1 + c + 1])
    + 3 * TfCosine(loc.old_ctx_tokens[op.i1 + r + 1], loc.new_ctx_tokens[op.j1 + c + 1])

\* The score as stated: the bonus 0.2 exactly at equal offsets.
ScoreSameOffset(op, r, c) ==
    BaseScore(op, r, c) + (IF r = c THEN 2000 ELSE 0)

\* The score as amended: the bonus 0.2 where the offsets differ by at most
\* one and the base score is at least 0.05.
ScoreNearOffset(op, r, c) ==
    BaseScore(op, r, c)
    + (IF Abs(r - c) <= 1 /\ BaseScore(op, r, c) >= 500 THEN 2000 ELSE 0)

\* sim_matrix of the span op holds Score at every pair of offsets.
MatrixHolds(op, sim_matrix, Score(_, _, _)) ==
    /\ Len(sim_matrix) = op.i2 - op.i1
    /\ \A r \in 0..(op.i2 - op.i1 - 1) :
          /\ Len(sim_matrix[r + 1]) = op.j2 - op.j1
          /\ \A c \in 0..(op.j2 - op.j1 - 1) : sim_matrix[r + 1][c + 1] = Score(op, r, c)

\* C14 as stated: the score of every candidate pair of a replace span is
\* 0.7 * content + 0.3 * context, plus 0.2 exactly when the two lines are
\* at the same offset of their ranges.
C14_BonusAtSameOffset ==
    \A k \in ReplaceOps :
        MatrixHolds(loc.opcodes[k], SpanMatrix(loc.opcodes[k]), ScoreSameOffset)

\* C14 amended: the score of every candidate pair of a replace span is
\* 0.7 * content + 0.3 * context, plus 0.2 exactly when the offsets of the
\* two lines differ by at most one and that sum is at least 0.05.
C14_BonusNearOffset ==
    \A k \in ReplaceOps :
        MatrixHolds(loc.opcodes[k], SpanMatrix(loc.opcodes[k]), ScoreNearOffset)

\* A run past a replace span that holds a pair at offsets one apart and a
\* pair at offsets two apart, both with a base score of at least 0.05: the
\* first has the bonus and the second has not.
C14_Witness ==
    /\ Done
    /\ \E k \in ReplaceOps :
          LET op == loc.opcodes[k]
          IN  /\ \E r \in 0..(op.i2 - op.i1 - 1), c \in 0..(op.j2 - op.j1 - 1) :
                    Abs(r - c) = 1 /\ BaseScore(op, r, c) >= 500
              /\ \E r \in 0..(op.i2 - op.i1 - 1), c \in 0..(op.j2 - op.j1 - 1) :
                    Abs(r - c) = 2 /\ BaseScore(op, r, c) >= 500

---------------------------------------------------------------------------
(* Properties of the filtering of whitespace-only lines *)

\* The 1-based positions in the file of the lines from i on that are not
\* whitespace only, ascending.
RECURSIVE NonBlankFrom(_, _)
NonBlankFrom(lines, i) ==
    IF i > Len(lines) THEN <<>>
    ELSE (IF Blank(lines, i) THEN <<>> ELSE <<i>>) \o NonBlankFrom(lines, i + 1)

\* The entries with an old side / with a new side.
WithOld == {k \in 1..Len(result) : result[k].old_line # None}
WithNew == {k \in 1..Len(result) : result[k].new_line # None}

\* The span op of equal lines pairs the lines at the file positions olds
\* and news of the kept lines: every pair is an entry, and the two lines
\* at those positions of the files have one normalized text.
AnchorsAtFilePositions(op, olds, news) ==
    \A d \in 0..(op.i2 - op.i1 - 1) :
        /\ LineMapping(olds[op.i1 + d + 1], news[op.j1 + d + 1]) \in Entries
        /\ CaseSpaceForm(old_lines[olds[op.i1 + d + 1]])
               = CaseSpaceForm(new_lines[news[op.j1 + d + 1]])

\* C15: no entry of the returned list names a whitespace-only line; every
\* line number in it is a position of the unfiltered file, the anchors of an
\* equal span being the positions of the lines that are equal; and as many
\* entries have an old side as the old file has lines that are not blank,
\* and likewise for the new side.
C15_BlankLinesFiltered ==
    Done => /\ \A k \in WithOld : /\ result[k].old_line \in 1..Len(old_lines)
                                  /\ ~Blank(old_lines, result[k].old_line)
            /\ \A k \in WithNew : /\ result[k].new_line \in 1..Len(new_lines)
                                  /\ ~Blank(new_lines, result[k].new_line)
            /\ Cardinality(WithOld) = Len(NonBlankFrom(old_lines, 1))
            /\ Cardinality(WithNew) = Len(NonBlankFrom(new_lines, 1))
            /\ \A k \in 1..Len(loc.opcodes) :
                  loc.opcodes[k].tag = "equal"
                  => AnchorsAtFilePositions(loc.opcodes[k], NonBlankFrom(old_lines, 1),
                                            NonBlankFrom(new_lines, 1))

\* A run on files that both hold a whitespace-only line, in which a line
\* after the blank line of the old file is anchored to a line at another
\* position of the new file.
C15_Witness ==
    /\ Done
    /\ \E i \in 1..Len(old_lines) : Blank(old_lines, i)
    /\ \E j \in 1..Len(new_lines) : Blank(new_lines, j)
    /\ \E k \in 1..Len(loc.opcodes) : loc.opcodes[k].tag = "equal"
    /\ \E m \in Entries :
          /\ m.old_line # None
          /\ m.new_line # None
          /\ m.old_line # m.new_line
          /\ old_lines[m.old_line] = new_lines[m.new_line]
          /\ \E i \in 1..(m.old_line - 1) : Blank(old_lines, i)

=============================================================================
